---- MODULE Spec2Model ----
(***************************************************************************)
(* Model of AVLTree.py: a pointer-linked AVL tree with a shared sentinel   *)
(* node (nil), parent back-references and incrementally maintained balance *)
(* factors.  The heap is a function from node identities to node records;  *)
(* every method of AVLTree is an operator that maps a tree value (heap,    *)
(* root, pending exception, rotation log) to the tree value the method     *)
(* leaves behind.  A public call (insert_key, delete_key, and in           *)
(* SpecRotate rotate_left and rotate_right) is one step of the state       *)
(* machine; a call that raises leaves the tree as the exception found it   *)
(* and ends the run, since nothing in the repository catches it.           *)
(***************************************************************************)
EXTENDS Integers, Sequences, FiniteSets, TLC

\* ---- bounds -------------------------------------------------------------
\* Spec: inserts and deletes of keys 1..MaxKey on trees of up to MaxNodes nodes.
MaxNodes == 5
MaxKey == 4
\* SpecInsert: inserts only.
MaxInsertNodes == 6
\* SpecDeep: inserts and deletes of keys 1..DeepKey on up to DeepNodes nodes
\* (few keys, more nodes: long call sequences on trees of height 4).
DeepNodes == 7
DeepKey == 2
\* SpecRotate: inserts of keys 1..RotKey and rotations about any node, on up
\* to RotNodes nodes (trees of any shape, not only balanced ones).
RotNodes == 5
RotKey == 2

\* ---- values -------------------------------------------------------------
\* Python's None, as stored in the fields of a freshly constructed AVLNode.
NONE == -1
\* Identity of the sentinel node self.nil.
NIL == 0
\* What a reference to a node that is no longer part of the tree is renamed to.
DETACHED == -2
Keys == 1..MaxKey
DeepKeys == 1..DeepKey
RotKeys == 1..RotKey

\* AVLNode.__init__: key set from the argument, links None, balance 0.
AVLNode(end) ==
    [key |-> end, left |-> NONE, right |-> NONE, parent |-> NONE, balance |-> 0]

VARIABLES
    h,        \* heap: node identity -> AVLNode record (h[NIL] is the sentinel)
    root,     \* self.root
    outcome,  \* how the last public call ended: "ok" or the exception raised
    lastOp,   \* the last public call: [op, key, size of the tree it started from]
    log       \* rotations performed by the last public call, in order

vars == <<h, root, outcome, lastOp, log>>

min(a, b) == IF a < b THEN a ELSE b
max(a, b) == IF a > b THEN a ELSE b

\* A tree value threaded through the methods.
Tree(hh, r, e, l) == [h |-> hh, root |-> r, err |-> e, log |-> l]
Raise(T, e) == [T EXCEPT !.err = e]

\* Sequencing of statements: evaluate v once, then continue with F on its value.
Then(v, F(_)) == CHOOSE r \in {F(x) : x \in {v}} : TRUE

\* ---- rotations ----------------------------------------------------------
\* rotate_left without re-parenting the subtree that changes sides
\* (the statement "x.right.parent = x" left out).
rotate_left_keeps_parent(T, x) ==
    IF T.err # "ok" THEN T
    ELSE IF T.h[x].right = NIL THEN Raise(T, "AssertionError")
    ELSE
      Then(T.h[x].right, LAMBDA y :
      Then([T.h EXCEPT ![x].right = T.h[y].left], LAMBDA h2 :
      Then([h2 EXCEPT ![y].parent = h2[x].parent], LAMBDA h3 :
      Then(IF h3[y].parent = NIL THEN h3
           ELSE IF x = h3[h3[y].parent].left
           THEN [h3 EXCEPT ![h3[y].parent].left = y]
           ELSE [h3 EXCEPT ![h3[y].parent].right = y], LAMBDA h4 :
      Then([h4 EXCEPT ![y].left = x, ![x].parent = y], LAMBDA h5 :
      Then([h5 EXCEPT ![x].balance = @ + (1 - min(h5[y].balance, 0))], LAMBDA h6 :
      Then([h6 EXCEPT ![y].balance = @ + (1 + max(h6[x].balance, 0))], LAMBDA h7 :
        [T EXCEPT !.h = h7,
                  !.root = IF h3[y].parent = NIL THEN y ELSE @,
                  !.log = Append(@, <<"rotate_left", x>>)])))))))

rotate_left(T, x) ==
    IF T.err # "ok" THEN T
    \* assert x.right is not self.nil
    ELSE IF T.h[x].right = NIL THEN Raise(T, "AssertionError")
    ELSE
      \* y = x.right
      Then(T.h[x].right, LAMBDA y :
      \* x.right = y.left
      Then([T.h EXCEPT ![x].right = T.h[y].left], LAMBDA h1 :
      \* if x.right is not self.nil: x.right.parent = x
      Then(IF h1[x].right # NIL
           THEN [h1 EXCEPT ![h1[x].right].parent = x] ELSE h1, LAMBDA h2 :
      \* y.parent = x.parent
      Then([h2 EXCEPT ![y].parent = h2[x].parent], LAMBDA h3 :
      \* if y.parent is self.nil: self.root = y
      \* elif x is y.parent.left: y.parent.left = y  else: y.parent.right = y
      Then(IF h3[y].parent = NIL THEN h3
           ELSE IF x = h3[h3[y].parent].left
           THEN [h3 EXCEPT ![h3[y].parent].left = y]
           ELSE [h3 EXCEPT ![h3[y].parent].right = y], LAMBDA h4 :
      \* y.left = x; x.parent = y
      Then([h4 EXCEPT ![y].left = x, ![x].parent = y], LAMBDA h5 :
      \* x.balance += 1 - min(y.balance, 0)
      Then([h5 EXCEPT ![x].balance = @ + (1 - min(h5[y].balance, 0))], LAMBDA h6 :
      \* y.balance += 1 + max(x.balance, 0)
      Then([h6 EXCEPT ![y].balance = @ + (1 + max(h6[x].balance, 0))], LAMBDA h7 :
        [T EXCEPT !.h = h7,
                  !.root = IF h3[y].parent = NIL THEN y ELSE @,
                  !.log = Append(@, <<"rotate_left", x>>)]))))))))

\* rotate_right with min and max exchanged in the balance updates.
rotate_right_min_max(T, x) ==
    IF T.err # "ok" THEN T
    ELSE IF T.h[x].left = NIL THEN Raise(T, "AssertionError")
    ELSE
      Then(T.h[x].left, LAMBDA y :
      Then([T.h EXCEPT ![x].left = T.h[y].right], LAMBDA h1 :
      Then(IF h1[x].left # NIL
           THEN [h1 EXCEPT ![h1[x].left].parent = x] ELSE h1, LAMBDA h2 :
      Then([h2 EXCEPT ![y].parent = h2[x].parent], LAMBDA h3 :
      Then(IF h3[y].parent = NIL THEN h3
           ELSE IF x = h3[h3[y].parent].left
           THEN [h3 EXCEPT ![h3[y].parent].left = y]
           ELSE [h3 EXCEPT ![h3[y].parent].right = y], LAMBDA h4 :
      Then([h4 EXCEPT ![y].right = x, ![x].parent = y], LAMBDA h5 :
      Then([h5 EXCEPT ![x].balance = @ - (1 + min(h5[y].balance, 0))], LAMBDA h6 :
      Then([h6 EXCEPT ![y].balance = @ - (1 - max(h6[x].balance, 0))], LAMBDA h7 :
        [T EXCEPT !.h = h7,
                  !.root = IF h3[y].parent = NIL THEN y ELSE @,
                  !.log = Append(@, <<"rotate_right", x>>)]))))))))

rotate_right(T, x) ==
    IF T.err # "ok" THEN T
    \* assert x.left is not self.nil
    ELSE IF T.h[x].left = NIL THEN Raise(T, "AssertionError")
    ELSE
      \* y = x.left
      Then(T.h[x].left, LAMBDA y :
      \* x.left = y.right
      Then([T.h EXCEPT ![x].left = T.h[y].right], LAMBDA h1 :
      \* if x.left is not self.nil: x.left.parent = x
      Then(IF h1[x].left # NIL
           THEN [h1 EXCEPT ![h1[x].left].parent = x] ELSE h1, LAMBDA h2 :
      \* y.parent = x.parent
      Then([h2 EXCEPT ![y].parent = h2[x].parent], LAMBDA h3 :
      \* if y.parent is self.nil: self.root = y
      \* elif x is y.parent.left: y.parent.left = y  else: y.parent.right = y
      Then(IF h3[y].parent = NIL THEN h3
           ELSE IF x = h3[h3[y].parent].left
           THEN [h3 EXCEPT ![h3[y].parent].left = y]
           ELSE [h3 EXCEPT ![h3[y].parent].right = y], LAMBDA h4 :
      \* y.right = x; x.parent = y
      Then([h4 EXCEPT ![y].right = x, ![x].parent = y], LAMBDA h5 :
      \* x.balance -= 1 + max(y.balance, 0)
      Then([h5 EXCEPT ![x].balance = @ - (1 + max(h5[y].balance, 0))], LAMBDA h6 :
      \* y.balance -= 1 - min(x.balance, 0)
      Then([h6 EXCEPT ![y].balance = @ - (1 - min(h6[x].balance, 0))], LAMBDA h7 :
        [T EXCEPT !.h = h7,
                  !.root = IF h3[y].parent = NIL THEN y ELSE @,
                  !.log = Append(@, <<"rotate_right", x>>)]))))))))

\* ---- rebalance ----------------------------------------------------------
\* The first loop of rebalance with the inner rotation turned the other way
\* (rotate_right on x.left).
RECURSIVE rebalance_left_heavy_same_way(_, _)
rebalance_left_heavy_same_way(T, x) ==
    IF T.err = "ok" /\ T.h[x].balance > 1
    THEN Then(IF T.h[T.h[x].left].balance < 0
              THEN rotate_right(T, T.h[x].left) ELSE T, LAMBDA T1 :
         Then(rotate_right(T1, x), LAMBDA T2 :
           rebalance_left_heavy_same_way(T2, x)))
    ELSE T

\* while x.balance > 1: if x.left.balance < 0: rotate_left(x.left)
\*                      rotate_right(x)
RECURSIVE rebalance_left_heavy(_, _)
rebalance_left_heavy(T, x) ==
    IF T.err = "ok" /\ T.h[x].balance > 1
    THEN Then(IF T.h[T.h[x].left].balance < 0
              THEN rotate_left(T, T.h[x].left) ELSE T, LAMBDA T1 :
         Then(rotate_right(T1, x), LAMBDA T2 :
           rebalance_left_heavy(T2, x)))
    ELSE T

\* while x.balance < -1: if x.right.balance > 0: rotate_right(x.right)
\*                       rotate_left(x)
RECURSIVE rebalance_right_heavy(_, _)
rebalance_right_heavy(T, x) ==
    IF T.err = "ok" /\ T.h[x].balance < -1
    THEN Then(IF T.h[T.h[x].right].balance > 0
              THEN rotate_right(T, T.h[x].right) ELSE T, LAMBDA T1 :
         Then(rotate_left(T1, x), LAMBDA T2 :
           rebalance_right_heavy(T2, x)))
    ELSE T

rebalance(T, x) ==
    IF x = NIL THEN T
    ELSE Then(rebalance_left_heavy(T, x), LAMBDA T1 : rebalance_right_heavy(T1, x))

\* ---- update -------------------------------------------------------------
\* update that adjusts the parent's balance and goes no further up.
update_one_level(T, x, factor) ==
    IF x = NIL THEN T
    ELSE IF T.h[x].balance > 1 \/ T.h[x].balance < -1 THEN rebalance(T, x)
    ELSE IF x = T.root THEN T
    ELSE
      Then(T.h[x].parent, LAMBDA p :
        IF x = T.h[p].left
        THEN [T EXCEPT !.h[p].balance = @ + factor]
        ELSE IF x = T.h[p].right
        THEN [T EXCEPT !.h[p].balance = @ - factor]
        ELSE T)

RECURSIVE update(_, _, _)
update(T, x, factor) ==
    IF x = NIL THEN T
    ELSE IF T.h[x].balance > 1 \/ T.h[x].balance < -1 THEN rebalance(T, x)
    ELSE IF x = T.root THEN T
    ELSE
      Then(T.h[x].parent, LAMBDA p :
      \* if x is x.parent.left: x.parent.balance += factor
      \* elif x is x.parent.right: x.parent.balance -= factor
      Then(IF x = T.h[p].left
           THEN [T EXCEPT !.h[p].balance = @ + factor]
           ELSE IF x = T.h[p].right
           THEN [T EXCEPT !.h[p].balance = @ - factor]
           ELSE T, LAMBDA T1 :
      \* if x.parent.balance != 0: self.update(x.parent, factor)
        IF T1.h[p].balance # 0 THEN update(T1, p, factor) ELSE T1))

\* ---- search and insert --------------------------------------------------
\* search with the loop's result taken one step early: a miss returns the last
\* node visited instead of the sentinel.
RECURSIVE search_returns_last(_, _, _)
search_returns_last(hh, x, key) ==
    IF x = NIL THEN x
    ELSE IF key = hh[x].key THEN x
    ELSE IF key < hh[x].key
    THEN (IF hh[x].left = NIL THEN x ELSE search_returns_last(hh, hh[x].left, key))
    ELSE (IF hh[x].right = NIL THEN x ELSE search_returns_last(hh, hh[x].right, key))

RECURSIVE search_from(_, _, _)
search_from(hh, x, key) ==
    IF x = NIL THEN x
    ELSE IF key = hh[x].key THEN x
    ELSE IF key < hh[x].key THEN search_from(hh, hh[x].left, key)
    ELSE search_from(hh, hh[x].right, key)

search(T, key) == search_from(T.h, T.root, key)

\* The descent loop of insert with its comparison inverted.
RECURSIVE insert_descend_inverted(_, _, _, _)
insert_descend_inverted(hh, x, y, key) ==
    IF y = NIL THEN x
    ELSE IF key > hh[y].key THEN insert_descend_inverted(hh, y, hh[y].left, key)
    ELSE insert_descend_inverted(hh, y, hh[y].right, key)

\* The descent loop of insert: the last node visited before falling off.
RECURSIVE insert_descend(_, _, _, _)
insert_descend(hh, x, y, key) ==
    IF y = NIL THEN x
    ELSE IF key < hh[y].key THEN insert_descend(hh, y, hh[y].left, key)
    ELSE insert_descend(hh, y, hh[y].right, key)

\* insert with the new leaf attached on the other side of its parent.
insert_wrong_side(T, node) ==
    Then(insert_descend(T.h, T.root, T.root, T.h[node].key), LAMBDA x :
    Then([T.h EXCEPT ![node].parent = x,
                     ![node].left = NIL,
                     ![node].right = NIL], LAMBDA h1 :
    Then(IF x = NIL THEN [T EXCEPT !.h = h1, !.root = node]
         ELSE IF h1[node].key < h1[x].key
         THEN [T EXCEPT !.h = [h1 EXCEPT ![x].right = node]]
         ELSE [T EXCEPT !.h = [h1 EXCEPT ![x].left = node]], LAMBDA T1 :
      update(T1, node, 1))))

insert(T, node) ==
    Then(insert_descend(T.h, T.root, T.root, T.h[node].key), LAMBDA x :
    \* node.parent = x; node.left = self.nil; node.right = self.nil
    Then([T.h EXCEPT ![node].parent = x,
                     ![node].left = NIL,
                     ![node].right = NIL], LAMBDA h1 :
    \* if x is self.nil: self.root = node
    \* elif node.key < x.key: x.left = node  else: x.right = node
    Then(IF x = NIL THEN [T EXCEPT !.h = h1, !.root = node]
         ELSE IF h1[node].key < h1[x].key
         THEN [T EXCEPT !.h = [h1 EXCEPT ![x].left = node]]
         ELSE [T EXCEPT !.h = [h1 EXCEPT ![x].right = node]], LAMBDA T1 :
      update(T1, node, 1))))

\* Number of node objects in the heap besides the sentinel.
Size(hh) == Cardinality(DOMAIN hh) - 1

\* insert_key: construct a node (a fresh identity, added to the heap) and
\* insert it.
insert_key(T, key) ==
    Then(Size(T.h) + 1, LAMBDA node :
    Then([T EXCEPT !.h = T.h @@ (node :> AVLNode(key))], LAMBDA T0 :
      insert(T0, node)))

\* ---- minimum / maximum --------------------------------------------------
RECURSIVE maximum(_, _)
maximum(hh, x) == IF hh[x].right # NIL THEN maximum(hh, hh[x].right) ELSE x

RECURSIVE minimum(_, _)
minimum(hh, x) == IF hh[x].left # NIL THEN minimum(hh, hh[x].left) ELSE x

\* ---- delete -------------------------------------------------------------
\* _delete_leaf is declared without its receiver (def _delete_leaf(x)), so the
\* call self._delete_leaf(x) passes two arguments to a one-parameter function:
\* Python raises TypeError before any statement of the body runs.
delete_leaf(T, x) == Raise(T, "TypeError")

\* _replace without its first statement (y.parent = x.parent).
replace_keeps_parent(T, x, y) ==
    IF x = T.root THEN [T EXCEPT !.root = y]
    ELSE
      Then(IF x = T.h[T.h[x].parent].left
           THEN [T EXCEPT !.h[T.h[x].parent].left = y]
           ELSE [T EXCEPT !.h[T.h[x].parent].right = y], LAMBDA T2 :
        update(T2, y, -1))

\* _replace: splice y into x's position, then propagate with factor -1.
replace(T, x, y) ==
    \* y.parent = x.parent
    Then([T EXCEPT !.h[y].parent = T.h[x].parent], LAMBDA T1 :
    \* if x is self.root: self.root = y; return
    IF x = T1.root THEN [T1 EXCEPT !.root = y]
    ELSE
      \* elif x is x.parent.left: x.parent.left = y  else: x.parent.right = y
      Then(IF x = T1.h[T1.h[x].parent].left
           THEN [T1 EXCEPT !.h[T1.h[x].parent].left = y]
           ELSE [T1 EXCEPT !.h[T1.h[x].parent].right = y], LAMBDA T2 :
        update(T2, y, -1)))

\* _swap_right: exchange the tree positions of x and the minimum of its
\* right subtree, statement by statement.
swap_right(T, x) ==
    Then(minimum(T.h, T.h[x].right), LAMBDA y :
    Then(T.h, LAMBDA h0 :
    Then(IF x = h0[y].parent
         THEN \* x.parent, y.parent = y, x.parent
              Then([h0 EXCEPT ![x].parent = y, ![y].parent = h0[x].parent], LAMBDA a1 :
              \* x.right, y.right = y.right, x
                [a1 EXCEPT ![x].right = a1[y].right, ![y].right = x])
         ELSE \* x.parent, y.parent = y.parent, x.parent
              Then([h0 EXCEPT ![x].parent = h0[y].parent,
                              ![y].parent = h0[x].parent], LAMBDA b1 :
              \* x.right, y.right = y.right, x.right
              Then([b1 EXCEPT ![x].right = b1[y].right,
                              ![y].right = b1[x].right], LAMBDA b2 :
              \* x.parent.left = x
              Then([b2 EXCEPT ![b2[x].parent].left = x], LAMBDA b3 :
              \* y.right.parent = y
                [b3 EXCEPT ![b3[y].right].parent = y]))), LAMBDA hA :
    \* if y.parent is self.nil: self.root = y
    \* elif x is y.parent.left: y.parent.left = y  else: y.parent.right = y
    Then(IF hA[y].parent = NIL THEN hA
         ELSE IF x = hA[hA[y].parent].left
         THEN [hA EXCEPT ![hA[y].parent].left = y]
         ELSE [hA EXCEPT ![hA[y].parent].right = y], LAMBDA hC :
    \* x.left, y.left = y.left, x.left
    Then([hC EXCEPT ![x].left = hC[y].left, ![y].left = hC[x].left], LAMBDA hD :
    \* x.left.parent = x
    Then([hD EXCEPT ![hD[x].left].parent = x], LAMBDA e1 :
    \* x.right.parent = x
    Then([e1 EXCEPT ![e1[x].right].parent = x], LAMBDA e2 :
    \* y.left.parent = y
    Then([e2 EXCEPT ![e2[y].left].parent = y], LAMBDA e3 :
    \* x.balance, y.balance = y.balance, x.balance
      [T EXCEPT !.h = [e3 EXCEPT ![x].balance = e3[y].balance,
                                 ![y].balance = e3[x].balance],
                !.root = IF hA[y].parent = NIL THEN y ELSE @]))))))))

RECURSIVE delete(_, _)
delete(T, x) ==
    IF x = NIL THEN T
    ELSE IF T.h[x].left # NIL /\ T.h[x].right # NIL
         THEN Then(swap_right(T, x), LAMBDA T1 : delete(T1, x))
    ELSE IF T.h[x].left # NIL THEN replace(T, x, T.h[x].left)
    ELSE IF T.h[x].right # NIL THEN replace(T, x, T.h[x].right)
    ELSE delete_leaf(T, x)

delete_key(T, key) == Then(search(T, key), LAMBDA x : delete(T, x))

\* ---- traversals (generators, as the sequence of nodes they yield) --------
RECURSIVE descending(_, _)
descending(hh, x) ==
    IF x = NIL THEN <<>>
    ELSE (IF hh[x].right # NIL THEN descending(hh, hh[x].right) ELSE <<>>)
         \o <<x>>
         \o (IF hh[x].left # NIL THEN descending(hh, hh[x].left) ELSE <<>>)

RECURSIVE ascending(_, _)
ascending(hh, x) ==
    IF x = NIL THEN <<>>
    ELSE (IF hh[x].left # NIL THEN ascending(hh, hh[x].left) ELSE <<>>)
         \o <<x>>
         \o (IF hh[x].right # NIL THEN ascending(hh, hh[x].right) ELSE <<>>)

RECURSIVE left_descending(_, _)
left_descending(hh, x) ==
    (IF hh[x].left # NIL THEN descending(hh, hh[x].left) ELSE <<>>)
    \o (IF hh[hh[x].parent].right = x
        THEN <<hh[x].parent>> \o left_descending(hh, hh[x].parent)
        ELSE <<>>)

RECURSIVE right_ascending(_, _)
right_ascending(hh, x) ==
    (IF hh[x].right # NIL THEN ascending(hh, hh[x].right) ELSE <<>>)
    \o (IF hh[hh[x].parent].left = x
        THEN <<hh[x].parent>> \o right_ascending(hh, hh[x].parent)
        ELSE <<>>)

\* ---- node identities ----------------------------------------------------
\* Nodes are Python objects: the code compares them only with "is", never by
\* address, and an object nothing refers to is reclaimed.  The heap is
\* therefore kept up to renaming: when a call ends, the nodes reachable from
\* the root are numbered 1..n in preorder and the others are dropped.
RECURSIVE Preorder(_, _)
Preorder(hh, x) ==
    IF x = NIL THEN <<>>
    ELSE <<x>> \o Preorder(hh, hh[x].left) \o Preorder(hh, hh[x].right)

Rename(order, r) ==
    IF r = NIL \/ r = NONE THEN r
    ELSE IF \E i \in 1..Len(order) : order[i] = r
    THEN CHOOSE i \in 1..Len(order) : order[i] = r
    ELSE DETACHED

RenameNode(order, n) ==
    [key |-> n.key,
     left |-> Rename(order, n.left),
     right |-> Rename(order, n.right),
     parent |-> Rename(order, n.parent),
     balance |-> n.balance]

Canon(T) ==
    Then(Preorder(T.h, T.root), LAMBDA order :
      [h    |-> [i \in 0..Len(order) |->
                    IF i = NIL THEN RenameNode(order, T.h[NIL])
                    ELSE RenameNode(order, T.h[order[i]])],
       root |-> Rename(order, T.root),
       err  |-> T.err,
       log  |-> [j \in 1..Len(T.log) |->
                    <<T.log[j][1], Rename(order, T.log[j][2])>>]])

\* ---- the state machine --------------------------------------------------
\* AVLTree.__init__: the sentinel is new_node(None) and the root is the sentinel.
Init ==
    /\ h = [i \in {NIL} |-> AVLNode(NONE)]
    /\ root = NIL
    /\ outcome = "ok"
    /\ lastOp = [op |-> "init", key |-> NONE, size |-> 0]
    /\ log = <<>>

\* The tree a public call starts from.
Cur == Tree(h, root, "ok", <<>>)

\* What a public call leaves behind, before nodes are renamed.
Post(op, k) == IF op = "insert_key" THEN insert_key(Cur, k) ELSE delete_key(Cur, k)

Call(op, k) ==
    \E P \in {Post(op, k)} : \E C \in {Canon(P)} :
        /\ h' = C.h
        /\ root' = C.root
        /\ outcome' = C.err
        /\ log' = C.log
        /\ lastOp' = [op |-> op, key |-> k, size |-> Size(h)]

\* An exception is not caught anywhere in the repository: it ends the run.
InsertKey(k, cap) ==
    /\ outcome = "ok"
    /\ Size(h) < cap
    /\ Call("insert_key", k)

DeleteKey(k) ==
    /\ outcome = "ok"
    /\ Call("delete_key", k)

Next == \E k \in Keys : InsertKey(k, MaxNodes) \/ DeleteKey(k)
Spec == Init /\ [][Next]_vars

NextInsert == \E k \in Keys : InsertKey(k, MaxInsertNodes)
SpecInsert == Init /\ [][NextInsert]_vars

NextDeep == \E k \in DeepKeys : InsertKey(k, DeepNodes) \/ DeleteKey(k)
SpecDeep == Init /\ [][NextDeep]_vars

\* ---- oracles used by the properties -------------------------------------
RECURSIVE height(_, _)
height(hh, x) ==
    IF x = NIL THEN 0 ELSE 1 + max(height(hh, hh[x].left), height(hh, hh[x].right))

\* Nodes reachable from the root (every other node is dropped when a call ends).
Reach == 1..Size(h)

SeqToSet(s) == {s[i] : i \in 1..Len(s)}
Subtree(hh, x) == SeqToSet(Preorder(hh, x))
KeysOf(hh, s) == [i \in 1..Len(s) |-> hh[s[i]].key]
Reverse(s) == [i \in 1..Len(s) |-> s[Len(s) + 1 - i]]
IsSorted(ks) == \A i \in 1..(Len(ks) - 1) : ks[i] <= ks[i + 1]
Count(ks, k) == Cardinality({i \in 1..Len(ks) : ks[i] = k})
AllKeys == 1..max(MaxKey, DeepKey)

\* Section 3, invariant 1 of the specification: left strictly less, right >=.
StrictOrder(hh, r) ==
    \A n \in Subtree(hh, r) :
        /\ \A m \in Subtree(hh, hh[n].left) : hh[m].key < hh[n].key
        /\ \A m \in Subtree(hh, hh[n].right) : hh[m].key >= hh[n].key

WeakOrder(hh, r) ==
    \A n \in Subtree(hh, r) :
        /\ \A m \in Subtree(hh, hh[n].left) : hh[m].key <= hh[n].key
        /\ \A m \in Subtree(hh, hh[n].right) : hh[m].key >= hh[n].key

\* ---- C1 -----------------------------------------------------------------
\* C1: after every insert_key or delete_key call that returns, every node
\* reachable from the root has balance in {-1, 0, 1} and its balance field
\* equals height(left) - height(right) computed from the shape of the tree.
C1_BalanceInvariant ==
    outcome = "ok" =>
        \A n \in Reach :
            /\ h[n].balance \in {-1, 0, 1}
            /\ h[n].balance = height(h, h[n].left) - height(h, h[n].right)

\* ---- C2 -----------------------------------------------------------------
C2_Step ==
    LET pre == KeysOf(h, ascending(h, root))
        asc == KeysOf(h', ascending(h', root'))
    IN  /\ IsSorted(asc)
        /\ \A j \in AllKeys :
              Count(asc, j) =
                  IF j # lastOp'.key THEN Count(pre, j)
                  ELSE IF lastOp'.op = "insert_key" THEN Count(pre, j) + 1
                  ELSE IF Count(pre, j) > 0 THEN Count(pre, j) - 1
                  ELSE 0
        /\ descending(h', root') = Reverse(ascending(h', root'))

\* C2: over any sequence of insert_key and delete_key calls the keys yielded
\* by ascending() are non-decreasing and are, as a multiset, the keys inserted
\* minus the keys deleted (each call adds or removes one occurrence of its
\* key), and descending() yields the reverse of ascending().
C2_OrderedMultiset == [][C2_Step]_vars

\* ---- C3 -----------------------------------------------------------------
\* C3: delete_key(k) followed by search(k) returns the sentinel (not found).
C3_DeleteThenSearch ==
    lastOp.op = "delete_key" => search_from(h, root, lastOp.key) = NIL

\* ---- C4 -----------------------------------------------------------------
\* C4: insert_key(k) followed by search(k) returns a node other than the
\* sentinel, reachable from the root, whose key is k.
C4_InsertThenSearch ==
    lastOp.op = "insert_key" =>
        /\ search_from(h, root, lastOp.key) # NIL
        /\ search_from(h, root, lastOp.key) \in Subtree(h, root)
        /\ h[search_from(h, root, lastOp.key)].key = lastOp.key

\* An insert of a key already present that returned after a double rotation.
C4_Witness ==
    /\ lastOp.op = "insert_key"
    /\ outcome = "ok"
    /\ Len(log) = 2
    /\ Count(KeysOf(h, ascending(h, root)), lastOp.key) >= 2

\* ---- C5 -----------------------------------------------------------------
\* C5: for every node x of a tree built by inserts, left_descending(x) yields
\* exactly the nodes of the whole tree with key < x.key, each once, in
\* descending order: the reverse of ascending() filtered to keys < x.key.
C5_LeftDescending ==
    \A x \in Reach :
        left_descending(h, x) =
            Reverse(SelectSeq(ascending(h, root), LAMBDA n : h[n].key < h[x].key))

\* ---- C6 -----------------------------------------------------------------
\* C6: for every node x of a tree built by inserts, right_ascending(x) yields
\* exactly the nodes of the whole tree with key > x.key, each once, in
\* ascending order: ascending() filtered to keys > x.key.
C6_RightAscending ==
    \A x \in Reach :
        right_ascending(h, x) =
            SelectSeq(ascending(h, root), LAMBDA n : h[n].key > h[x].key)

\* ---- C7 -----------------------------------------------------------------
C7_Step ==
    (/\ lastOp'.op = "delete_key"
     /\ root # NIL
     /\ h[root].key = lastOp'.key
     /\ h[root].left # NIL
     /\ h[root].right # NIL)
    => LET P == Post("delete_key", lastOp'.key)
       IN  /\ outcome' = "ok"
           /\ P.root = minimum(h, h[root].right)
           /\ root \notin Subtree(P.h, P.root)
           /\ StrictOrder(h', root')

\* C7: delete_key of the root's key, when the root has two children, completes
\* with the minimum of the right subtree in the root position, the old root
\* no longer reachable and the BST ordering holding at every node.
C7_DeleteRootTwoChildren == [][C7_Step]_vars

\* ---- C8 -----------------------------------------------------------------
\* C8: in any sequence of insert_key and delete_key calls neither rotation
\* assertion fails, and insert_key always succeeds.
C8_NoAssertion ==
    /\ outcome # "AssertionError"
    /\ lastOp.op = "insert_key" => outcome = "ok"

\* ---- C9 -----------------------------------------------------------------
C9_Step ==
    (/\ lastOp'.op = "delete_key"
     /\ \A n \in Subtree(h, root) : h[n].key # lastOp'.key)
    => /\ outcome' = "ok"
       /\ h' = h
       /\ root' = root
       /\ Post("delete_key", lastOp'.key) = Cur

\* C9: delete_key(k) on a tree in which no reachable node has key k returns
\* without raising and leaves the root and every node's key, left, right,
\* parent and balance unchanged.
C9_DeleteAbsent == [][C9_Step]_vars

\* A delete_key that returned from a non-empty tree holding no node with its key.
C9_Witness ==
    /\ lastOp.op = "delete_key"
    /\ outcome = "ok"
    /\ lastOp.size = Size(h)
    /\ Size(h) >= 3
    /\ \A n \in Reach : h[n].key # lastOp.key

\* ---- C10 ----------------------------------------------------------------
\* C10 as stated: after every insert_key, at every node the keys of the left
\* subtree are strictly less than its key and the keys of the right subtree
\* are greater than or equal to it, also after rebalancing rotations.
C10_StrictOrder == StrictOrder(h, root)

C10_AmendedStep ==
    /\ WeakOrder(h', root')
    /\ IsSorted(KeysOf(h', ascending(h', root')))
    /\ (StrictOrder(h, root) /\ ~StrictOrder(h', root')) => log' # <<>>

\* C10 as amended: after every insert_key, at every node the keys of the left
\* subtree are less than or equal to its key and the keys of the right
\* subtree are greater than or equal to it; a key equal to a node's key comes
\* to sit in that node's left subtree only in a call that ran a rotation.
C10_WeakOrder == [][C10_AmendedStep]_vars

\* An insert whose rotation has left a key equal to a node's key in that
\* node's left subtree.
C10_Witness ==
    /\ lastOp.op = "insert_key"
    /\ log # <<>>
    /\ \E n \in Reach : \E m \in Subtree(h, h[n].left) : h[m].key = h[n].key

\* ---- C11 ----------------------------------------------------------------
\* C11: after every insert_key or delete_key call that returns, every
\* reachable node other than the root is referenced by exactly one of its
\* parent's left and right, its parent is itself reachable, and the parent of
\* the root is the sentinel; rotations, the one-child splice and the
\* successor swap keep it so.
C11_ParentConsistency ==
    outcome = "ok" =>
        /\ root # NIL => h[root].parent = NIL
        /\ \A n \in Reach \ {root} :
              /\ h[n].parent \in Reach
              /\ (h[h[n].parent].left = n) # (h[h[n].parent].right = n)

\* A delete_key that returned after splicing a node out and rotating, on a
\* tree in which a successor swap has run (_swap_right leaves the sentinel's
\* parent naming the node it swapped down, which the splice then removed).
C11_Witness ==
    /\ lastOp.op = "delete_key"
    /\ outcome = "ok"
    /\ lastOp.size = Size(h) + 1
    /\ log # <<>>
    /\ h[NIL].parent = DETACHED

\* ---- C12 ----------------------------------------------------------------
\* The statements of _replace that run before it calls update(y, -1), for x
\* other than the root: y takes x's parent and x's slot in that parent.
replace_links(T, x, y) ==
    Then([T EXCEPT !.h[y].parent = T.h[x].parent], LAMBDA T1 :
      IF x = T1.h[T1.h[x].parent].left
      THEN [T1 EXCEPT !.h[T1.h[x].parent].left = y]
      ELSE [T1 EXCEPT !.h[T1.h[x].parent].right = y])

\* The tree in which delete(x) reaches its one-child or leaf branch: after
\* _swap_right when x had two children, unchanged otherwise.
BeforeSplice(T, x) ==
    IF x # NIL /\ T.h[x].left # NIL /\ T.h[x].right # NIL THEN swap_right(T, x) ELSE T

OnlyChild(T, x) == IF T.h[x].left # NIL THEN T.h[x].left ELSE T.h[x].right

\* update's adjustment of the parent's balance for factor -1.
AdjustParent(T, y) ==
    IF y = T.h[T.h[y].parent].left
    THEN [T EXCEPT !.h[T.h[y].parent].balance = @ - 1]
    ELSE [T EXCEPT !.h[T.h[y].parent].balance = @ + 1]

\* C12: when update runs with the deletion adjustment -1 (from _replace, in
\* any delete_key call the tree admits), then once the parent's balance has
\* been adjusted, update goes on to the parent exactly when the adjusted
\* balance is 0 and ends there when it is 1 or -1.
C12_DeletionRule ==
    outcome = "ok" =>
        \A k \in AllKeys :
            \E x \in {search(Cur, k)} : \E T0 \in {BeforeSplice(Cur, x)} :
                (/\ x # NIL
                 /\ x # T0.root
                 /\ (T0.h[x].left = NIL) # (T0.h[x].right = NIL))
                => \E y \in {OnlyChild(T0, x)} :
                   \E T2 \in {replace_links(T0, x, y)} :
                   \E T3 \in {AdjustParent(T2, y)} :
                       T3.h[T3.h[y].parent].balance \in {-1, 0, 1}
                       => update(T2, y, -1) =
                              IF T3.h[T3.h[y].parent].balance = 0
                              THEN update(T3, T3.h[y].parent, -1)
                              ELSE T3

\* ---- C13 ----------------------------------------------------------------
\* The position of a node: the left/right turns that lead to it from the root.
RECURSIVE PathTo(_, _)
PathTo(hh, n) ==
    IF hh[n].parent = NIL THEN <<>>
    ELSE Append(PathTo(hh, hh[n].parent),
                IF hh[hh[n].parent].left = n THEN "L" ELSE "R")

RECURSIVE At(_, _, _)
At(hh, r, path) ==
    IF path = <<>> \/ r = NIL THEN r
    ELSE At(hh, IF Head(path) = "L" THEN hh[r].left ELSE hh[r].right, Tail(path))

RECURSIVE Ancestors(_, _)
Ancestors(hh, n) ==
    IF hh[n].parent = NIL THEN {} ELSE {hh[n].parent} \cup Ancestors(hh, hh[n].parent)

\* The node that stood, before the call, where update found the node it
\* rebalanced: that node itself, or the node delete swapped it with.
RebalancedAt(op, k, x) ==
    IF /\ op = "delete_key"
       /\ search(Cur, k) # NIL
       /\ h[search(Cur, k)].left # NIL
       /\ h[search(Cur, k)].right # NIL
       /\ x = minimum(h, h[search(Cur, k)].right)
    THEN search(Cur, k) ELSE x

C13_Step ==
    (outcome' = "ok" /\ log' # <<>>)
    => \E P \in {Post(lastOp'.op, lastOp'.key)} :
       \E x \in {P.log[Len(P.log)][2]} :
       \E was \in {RebalancedAt(lastOp'.op, lastOp'.key, x)} :
       \E now \in {At(P.h, P.root, PathTo(h, was))} :
           /\ height(P.h, now) = height(h, was)
           /\ \A a \in Ancestors(P.h, now) :
                 P.h[a].balance = height(P.h, P.h[a].left) - height(P.h, P.h[a].right)

\* C13: whenever update finds a node with |balance| > 1 during an insert_key
\* or delete_key call and rebalances it, the subtree standing in that position
\* after rebalance is as high as the subtree that stood there before the call
\* began, and every ancestor of the position has balance equal to
\* height(left) - height(right).
C13_RebalanceRestoresHeight == [][C13_Step]_vars

\* ---- C14 ----------------------------------------------------------------
\* The statements of insert that run before it calls update(node, 1).
insert_links(T, node) ==
    Then(insert_descend(T.h, T.root, T.root, T.h[node].key), LAMBDA x :
    Then([T.h EXCEPT ![node].parent = x,
                     ![node].left = NIL,
                     ![node].right = NIL], LAMBDA h1 :
      IF x = NIL THEN [T EXCEPT !.h = h1, !.root = node]
      ELSE IF h1[node].key < h1[x].key
      THEN [T EXCEPT !.h = [h1 EXCEPT ![x].left = node]]
      ELSE [T EXCEPT !.h = [h1 EXCEPT ![x].right = node]]))

\* insert_key up to the call of update: the heap with the new node, linked in.
insert_key_links(T, key) ==
    Then(Size(T.h) + 1, LAMBDA node :
    Then([T EXCEPT !.h = T.h @@ (node :> AVLNode(key))], LAMBDA T0 :
      insert_links(T0, node)))

\* update up to its call of rebalance: the tree at that moment and the node
\* passed to rebalance (NIL when update ends without rebalancing).
RECURSIVE update_finds(_, _, _)
update_finds(T, x, factor) ==
    IF x = NIL THEN [T |-> T, x |-> NIL]
    ELSE IF T.h[x].balance > 1 \/ T.h[x].balance < -1 THEN [T |-> T, x |-> x]
    ELSE IF x = T.root THEN [T |-> T, x |-> NIL]
    ELSE
      Then(T.h[x].parent, LAMBDA p :
      Then(IF x = T.h[p].left
           THEN [T EXCEPT !.h[p].balance = @ + factor]
           ELSE IF x = T.h[p].right
           THEN [T EXCEPT !.h[p].balance = @ - factor]
           ELSE T, LAMBDA T1 :
        IF T1.h[p].balance # 0 THEN update_finds(T1, p, factor)
        ELSE [T |-> T1, x |-> NIL]))

\* The call of rebalance made by the public call op(k) from the current
\* tree, if it makes one.
AtRebalance(op, k) ==
    IF op = "insert_key"
    THEN update_finds(insert_key_links(Cur, k), Size(h) + 1, 1)
    ELSE Then(search(Cur, k), LAMBDA x :
         Then(BeforeSplice(Cur, x), LAMBDA T0 :
           IF x # NIL /\ x # T0.root /\ (T0.h[x].left = NIL) # (T0.h[x].right = NIL)
           THEN update_finds(replace_links(T0, x, OnlyChild(T0, x)), OnlyChild(T0, x), -1)
           ELSE [T |-> T0, x |-> NIL]))

PublicCalls == {"insert_key", "delete_key"}
SameTree(A, B) == A.h = B.h /\ A.root = B.root /\ A.err = B.err /\ A.log = B.log
LeftRightCase(S) ==
    S.x # NIL /\ S.T.h[S.x].balance > 1 /\ S.T.h[S.T.h[S.x].left].balance < 0
RightLeftCase(S) ==
    S.x # NIL /\ S.T.h[S.x].balance < -1 /\ S.T.h[S.T.h[S.x].right].balance > 0

\* C14 as stated: rebalance(x) with x.balance > 1 and x.left.balance < 0 first
\* applies rotate_right to x.left and then rotate_right to x; with
\* x.balance < -1 and x.right.balance > 0 it first applies rotate_left to
\* x.right and then rotate_left to x.
C14_SameDirection ==
    \A op \in PublicCalls : \A k \in AllKeys :
        \E S \in {AtRebalance(op, k)} :
            S.x # NIL =>
            \E R \in {rebalance(S.T, S.x)} :
                /\ LeftRightCase(S) =>
                      /\ Len(R.log) >= 2
                      /\ R.log[1] = <<"rotate_right", S.T.h[S.x].left>>
                      /\ R.log[2] = <<"rotate_right", S.x>>
                /\ RightLeftCase(S) =>
                      /\ Len(R.log) >= 2
                      /\ R.log[1] = <<"rotate_left", S.T.h[S.x].right>>
                      /\ R.log[2] = <<"rotate_left", S.x>>

\* C14 as amended: rebalance(x) with x.balance > 1 and x.left.balance < 0 first
\* applies rotate_left to x.left and then rotate_right to x; with
\* x.balance < -1 and x.right.balance > 0 it first applies rotate_right to
\* x.right and then rotate_left to x.  When the first rotation's assertion
\* fails (the child has no subtree on its heavy side) no rotation is applied.
\* What rebalance leaves is what the public call leaves.
C14_OppositeDirection ==
    \A op \in PublicCalls : \A k \in AllKeys :
        \E S \in {AtRebalance(op, k)} :
            S.x # NIL =>
            \E R \in {rebalance(S.T, S.x)} :
                /\ SameTree(R, Post(op, k))
                /\ LeftRightCase(S) =>
                      IF S.T.h[S.T.h[S.x].left].right = NIL
                      THEN R.err = "AssertionError" /\ R.log = <<>>
                      ELSE /\ Len(R.log) >= 2
                           /\ R.log[1] = <<"rotate_left", S.T.h[S.x].left>>
                           /\ R.log[2] = <<"rotate_right", S.x>>
                /\ RightLeftCase(S) =>
                      IF S.T.h[S.T.h[S.x].right].left = NIL
                      THEN R.err = "AssertionError" /\ R.log = <<>>
                      ELSE /\ Len(R.log) >= 2
                           /\ R.log[1] = <<"rotate_right", S.T.h[S.x].right>>
                           /\ R.log[2] = <<"rotate_left", S.x>>

\* A delete_key whose rebalance has applied rotate_left to the left child and
\* then rotate_right to the node: both now hang from the node promoted twice.
C14_Witness ==
    /\ lastOp.op = "delete_key"
    /\ outcome = "ok"
    /\ Len(log) = 2
    /\ log[1][1] = "rotate_left"
    /\ log[2][1] = "rotate_right"
    /\ h[log[2][2]].parent = h[log[1][2]].parent
    /\ h[h[log[2][2]].parent].left = log[1][2]
    /\ h[h[log[2][2]].parent].right = log[2][2]

\* ---- C15 ----------------------------------------------------------------
\* C15: every rebalance that an insert_key or delete_key call makes ends
\* without raising after at most one pass through one of its two loops (at
\* most two rotations, never rotate_right and rotate_left both applied to the
\* rebalanced node), leaving the rebalanced node with |balance| <= 1.
C15_OnePass ==
    \A op \in PublicCalls : \A k \in AllKeys :
        \E S \in {AtRebalance(op, k)} :
            S.x # NIL =>
            \E R \in {rebalance(S.T, S.x)} :
                /\ R.err = "ok"
                /\ Len(R.log) <= 2
                /\ ~ /\ \E i \in 1..Len(R.log) : R.log[i] = <<"rotate_right", S.x>>
                     /\ \E i \in 1..Len(R.log) : R.log[i] = <<"rotate_left", S.x>>
                /\ R.h[S.x].balance \in {-1, 0, 1}

\* ---- C16 ----------------------------------------------------------------
C16_Step ==
    \E x \in {search(Cur, lastOp'.key)} :
        (/\ lastOp'.op = "delete_key"
         /\ x # NIL
         /\ h[x].left = NIL
         /\ h[x].right = NIL)
        => \E P \in {Post("delete_key", lastOp'.key)} :
              /\ outcome' = "ok"
              /\ x \notin Subtree(P.h, P.root)
              /\ Size(h') = Size(h) - 1
              /\ IF x = root THEN P.root = NIL
                 ELSE IF h[h[x].parent].left = x
                 THEN /\ P.h[h[x].parent].left = NIL
                      /\ (h[h[x].parent].balance - 1 # 0
                            => P.h[h[x].parent].balance = h[h[x].parent].balance - 1)
                 ELSE /\ P.h[h[x].parent].right = NIL
                      /\ (h[h[x].parent].balance + 1 # 0
                            => P.h[h[x].parent].balance = h[h[x].parent].balance + 1)

\* C16: delete of a node with no children detaches it: the call returns, the
\* node is no longer reachable from the root; if it was the root the tree is
\* empty, otherwise the slot of its parent that held it is empty and the
\* parent's balance is lowered by 1 (left child) or raised by 1 (right child),
\* propagation going on from the parent only if that balance is then 0.
C16_DeleteLeaf == [][C16_Step]_vars

\* ---- C17 ----------------------------------------------------------------
\* C17: in any tree built by inserts, delete of a node x with exactly one
\* child c returns with c in x's place (c.parent is x's former parent and that
\* parent's slot refers to c, or c is the root with the sentinel as parent
\* when x was the root), with x no longer reachable, and with ascending()
\* yielding the nodes it yielded before, x left out.
C17_SpliceOneChild ==
    \A k \in AllKeys :
        \E x \in {search(Cur, k)} :
            (x # NIL /\ ((h[x].left = NIL) # (h[x].right = NIL)))
            => \E c \in {OnlyChild(Cur, x)} : \E P \in {delete_key(Cur, k)} :
                  /\ P.err = "ok"
                  /\ P.h[c].parent = h[x].parent
                  /\ IF x = root THEN P.root = c /\ P.h[c].parent = NIL
                     ELSE IF h[h[x].parent].left = x
                     THEN P.h[h[x].parent].left = c
                     ELSE P.h[h[x].parent].right = c
                  /\ x \notin Subtree(P.h, P.root)
                  /\ ascending(P.h, P.root)
                        = SelectSeq(ascending(h, root), LAMBDA n : n # x)

\* A tree built by six inserts in which some key is found at a node that is
\* not the root and has exactly one child, and whose delete returns.
C17_Witness ==
    /\ Size(h) = MaxInsertNodes
    /\ \E k \in Keys :
          /\ search(Cur, k) \notin {NIL, root}
          /\ (h[search(Cur, k)].left = NIL) # (h[search(Cur, k)].right = NIL)
          /\ delete_key(Cur, k).err = "ok"
          /\ Size(Canon(delete_key(Cur, k)).h) = MaxInsertNodes - 1

\* ---- C18 ----------------------------------------------------------------
BalancesRight(hh, r) ==
    \A n \in Subtree(hh, r) :
        hh[n].balance = height(hh, hh[n].left) - height(hh, hh[n].right)

\* rotate_left and rotate_right are public methods: a caller may apply them to
\* any node.  They are applied here to trees whose balances all equal
\* height(left) - height(right); lastOp.key is the key of the node rotated
\* about.
Rotate(op, x) ==
    /\ outcome = "ok"
    /\ BalancesRight(h, root)
    /\ \E P \in {IF op = "rotate_left" THEN rotate_left(Cur, x) ELSE rotate_right(Cur, x)} :
       \E C \in {Canon(P)} :
           /\ h' = C.h
           /\ root' = C.root
           /\ outcome' = C.err
           /\ log' = C.log
           /\ lastOp' = [op |-> op, key |-> h[x].key, size |-> Size(h)]

RotateLeft(x) == Rotate("rotate_left", x)
RotateRight(x) == Rotate("rotate_right", x)

NextRotate ==
    \/ \E k \in RotKeys : InsertKey(k, RotNodes)
    \/ \E x \in 1..Size(h) : RotateLeft(x) \/ RotateRight(x)
SpecRotate == Init /\ [][NextRotate]_vars

\* What both versions of the claim say of the links: the in-order sequence is
\* unchanged and y, the child of x on the side named, has taken x's place
\* with x as its child on the other side.
RotatedLinks(P, x, y) ==
    /\ P.err = "ok"
    /\ ascending(P.h, P.root) = ascending(h, root)
    /\ P.h[x].parent = y
    /\ P.h[y].parent = h[x].parent
    /\ P.root = IF x = root THEN y ELSE root
    /\ x # root => (IF h[h[x].parent].left = x
                    THEN P.h[h[x].parent].left = y
                    ELSE P.h[h[x].parent].right = y)

\* C18 as stated: in any tree whose balances all equal height(left) -
\* height(right), for any node x with a right child, rotate_left(x) leaves the
\* in-order sequence of nodes unchanged, makes the former x.right the parent
\* of x (and the root if x was the root) and leaves every node's balance equal
\* to height(left) - height(right); rotate_right(x), for x with a left child,
\* does the mirror image.
C18_EveryBalance ==
    (outcome = "ok" /\ BalancesRight(h, root)) =>
        \A x \in Reach :
            /\ h[x].right # NIL =>
                  \E P \in {rotate_left(Cur, x)} :
                      /\ RotatedLinks(P, x, h[x].right)
                      /\ P.h[h[x].right].left = x
                      /\ BalancesRight(P.h, P.root)
            /\ h[x].left # NIL =>
                  \E P \in {rotate_right(Cur, x)} :
                      /\ RotatedLinks(P, x, h[x].left)
                      /\ P.h[h[x].left].right = x
                      /\ BalancesRight(P.h, P.root)

\* The nodes outside the rotated subtree keep their balance fields; those
\* fields are all right if the subtree is as high as it was, and the parent's
\* is wrong if it is not.
OutsideUntouched(P, x, y) ==
    /\ \A n \in Reach \ Subtree(P.h, y) : P.h[n].balance = h[n].balance
    /\ height(P.h, y) = height(h, x) => BalancesRight(P.h, P.root)
    /\ (height(P.h, y) # height(h, x) /\ x # root) =>
          P.h[h[x].parent].balance #
              height(P.h, P.h[h[x].parent].left) - height(P.h, P.h[h[x].parent].right)

\* C18 as amended: in any tree whose balances all equal height(left) -
\* height(right), for any node x with a right child, rotate_left(x) leaves the
\* in-order sequence of nodes unchanged, makes the former x.right the parent
\* of x (and the root if x was the root) and leaves the balance of every node
\* of the rotated subtree (x, the former x.right and their descendants) equal
\* to height(left) - height(right); every other node keeps its balance field,
\* which is right for all of them exactly when the rotation has not changed
\* the height of the subtree.  rotate_right(x), for x with a left child, does
\* the mirror image.
C18_SubtreeBalances ==
    (outcome = "ok" /\ BalancesRight(h, root)) =>
        \A x \in Reach :
            /\ h[x].right # NIL =>
                  \E P \in {rotate_left(Cur, x)} :
                      /\ RotatedLinks(P, x, h[x].right)
                      /\ P.h[h[x].right].left = x
                      /\ BalancesRight(P.h, h[x].right)
                      /\ OutsideUntouched(P, x, h[x].right)
            /\ h[x].left # NIL =>
                  \E P \in {rotate_right(Cur, x)} :
                      /\ RotatedLinks(P, x, h[x].left)
                      /\ P.h[h[x].left].right = x
                      /\ BalancesRight(P.h, h[x].left)
                      /\ OutsideUntouched(P, x, h[x].left)

\* A rotate_right about a node that was not the root, in a tree that is not
\* balanced, which has made the subtree higher: the rotated subtree has right
\* balances, the tree as a whole has not.
C18_Witness ==
    /\ lastOp.op = "rotate_right"
    /\ outcome = "ok"
    /\ Len(log) = 1
    /\ Size(h) = RotNodes
    /\ h[log[1][2]].parent # NIL
    /\ h[h[log[1][2]].parent].parent # NIL
    /\ BalancesRight(h, h[log[1][2]].parent)
    /\ ~BalancesRight(h, root)
    /\ \E n \in Reach : h[n].balance < -1 \/ h[n].balance > 1

\* ---- C19 ----------------------------------------------------------------
C19_Step ==
    /\ outcome' = "ok"
    /\ \A n \in 1..Size(h') :
          /\ h'[n].balance \in {-1, 0, 1}
          /\ h'[n].balance = height(h', h'[n].left) - height(h', h'[n].right)
    /\ IsSorted(KeysOf(h', ascending(h', root')))
    /\ \A j \in AllKeys :
          Count(KeysOf(h', ascending(h', root')), j) =
              Count(KeysOf(h, ascending(h, root)), j) + (IF j = lastOp'.key THEN 1 ELSE 0)

\* C19: in any sequence of insert_key calls alone, starting from the empty
\* tree and with keys possibly repeated, after each call every reachable node
\* has balance in {-1, 0, 1} equal to height(left) - height(right), and
\* ascending() yields the keys inserted so far in non-decreasing order.
C19_InsertOnly == [][C19_Step]_vars

\* Six inserts, the last one of a key already present and ending in a double
\* rotation, on a tree of height 3.
C19_Witness ==
    /\ lastOp.op = "insert_key"
    /\ Size(h) = MaxInsertNodes
    /\ Len(log) = 2
    /\ height(h, root) = 3
    /\ Count(KeysOf(h, ascending(h, root)), lastOp.key) >= 2

\* ---- C20 ----------------------------------------------------------------
C20_Step ==
    (lastOp'.op = "delete_key" /\ outcome' # "ok")
    => \E P \in {Post("delete_key", lastOp'.key)} :
          /\ P.root = root
          /\ \A n \in Reach : P.h[n] = h[n]
          /\ IsSorted(KeysOf(P.h, ascending(P.h, P.root)))
          /\ \A n \in Reach : search_from(P.h, P.root, h[n].key) # NIL

\* C20: a delete_key call that raises leaves the tree as it was before the
\* call: the same root and the same key, left, right, parent and balance in
\* every node, so that ascending() is still ordered and every key of the tree
\* is still found by search; also when the call had already run the successor
\* swap of a node with two children.
C20_FailedDeleteUnchanged == [][C20_Step]_vars

====
